---- MODULE Spec2Model ----
(***************************************************************************)
(* Model of derilinx_geocoder_api.py: the address tokenizer                *)
(* (address_handler), the progressive matcher (extract_gps_coordinates)    *)
(* and the request handler (api_filter) that chains them over the two      *)
(* gazetteer tables TOWNLANDS_DF and COUNTIES_DF.                          *)
(*                                                                         *)
(* A Python str is a sequence of one-character strings; a list of str is   *)
(* a sequence of such sequences.  A pandas DataFrame is a record           *)
(* [columns, rows]: the set of column labels and the sequence of rows,     *)
(* each row a function from the column labels to cell values.              *)
(***************************************************************************)
EXTENDS Integers, Sequences, FiniteSets, TLC

\* ------------------------------------------------------------------ bounds
MaxAddrLen == 5
MaxTokens == 3
MaxRows == 2
MaxCalls == 2
NumReq == 2

Req == 1..NumReq

\* ------------------------------------------------------- python str / list
RECURSIVE SeqsUpTo(_, _)
SeqsUpTo(S, n) ==
    IF n = 0 THEN {<<>>}
    ELSE LET shorter == SeqsUpTo(S, n - 1)
         IN  shorter \cup {Append(s, x) : s \in {t \in shorter : Len(t) = n - 1}, x \in S}

Last(l) == l[Len(l)]

LowerCase == <<"a","b","c","d","e","f","g","h","i","j","k","l","m",
               "n","o","p","q","r","s","t","u","v","w","x","y","z">>
UpperCase == <<"A","B","C","D","E","F","G","H","I","J","K","L","M",
               "N","O","P","Q","R","S","T","U","V","W","X","Y","Z">>

\* str.upper() on one character
UpperChar(ch) ==
    IF \E i \in 1..Len(LowerCase) : LowerCase[i] = ch
    THEN UpperCase[CHOOSE i \in 1..Len(LowerCase) : LowerCase[i] = ch]
    ELSE ch

\* str.upper()
Upper(w) == [i \in 1..Len(w) |-> UpperChar(w[i])]

\* str.split(','): always at least one segment, empty segments kept
RECURSIVE SplitComma(_)
SplitComma(s) ==
    IF \E i \in 1..Len(s) : s[i] = ","
    THEN LET k == CHOOSE i \in 1..Len(s) : s[i] = "," /\ \A j \in 1..(i - 1) : s[j] # ","
         IN  <<SubSeq(s, 1, k - 1)>> \o SplitComma(SubSeq(s, k + 1, Len(s)))
    ELSE <<s>>

\* str.split(): split on runs of whitespace, no empty words
RECURSIVE SplitSpace(_)
SplitSpace(s) ==
    IF s = <<>> THEN <<>>
    ELSE IF Head(s) = " " THEN SplitSpace(Tail(s))
    ELSE IF \E i \in 1..Len(s) : s[i] = " "
         THEN LET k == CHOOSE i \in 1..Len(s) : s[i] = " " /\ \A j \in 1..(i - 1) : s[j] # " "
              IN  <<SubSeq(s, 1, k - 1)>> \o SplitSpace(SubSeq(s, k + 1, Len(s)))
         ELSE <<s>>

\* str.replace('.', '')
ReplaceDots(w) == SelectSeq(w, LAMBDA ch : ch # ".")

\* list.remove(x): delete the first occurrence of x
ListRemove(l, x) ==
    LET k == CHOOSE i \in 1..Len(l) : l[i] = x /\ \A j \in 1..(i - 1) : l[j] # x
    IN  SubSeq(l, 1, k - 1) \o SubSeq(l, k + 1, Len(l))

\* list.pop() as the list it leaves
PopLast(l) == SubSeq(l, 1, Len(l) - 1)
\* list.pop(0) as the list it leaves
PopFirst(l) == Tail(l)

\* --------------------------------------------------------- address_handler
\* "for word in l: if word == '': l.remove(word)": the list iterator keeps an
\* index into the list it is shrinking (i is the 1-based position it reads next)
RECURSIVE RemoveEmptyLoop(_, _)
RemoveEmptyLoop(l, i) ==
    IF i > Len(l) THEN l
    ELSE IF l[i] = <<>> THEN RemoveEmptyLoop(ListRemove(l, <<>>), i + 1)
    ELSE RemoveEmptyLoop(l, i + 1)

\* the enumerate loop without its replace('.', '')
KeepDots(word) == IF word[1] = " " THEN Tail(word) ELSE word
\* body of the enumerate loop for one non-empty element
CleanWord(word) == ReplaceDots(IF word[1] = " " THEN Tail(word) ELSE word)

\* the last loop: words of one cleaned element, upper-cased
FinalWords(word) ==
    IF \E i \in 1..Len(word) : word[i] = " "
    THEN LET aux == SplitSpace(word) IN [i \in 1..Len(aux) |-> Upper(aux[i])]
    ELSE <<Upper(word)>>

RECURSIVE Flatten(_)
Flatten(ll) == IF ll = <<>> THEN <<>> ELSE Head(ll) \o Flatten(Tail(ll))

\* address_handler(full_address): the list it returns, or the IndexError that
\* word[0] raises on an element the removal loop left empty
address_handler(full_address) ==
    LET separated == RemoveEmptyLoop(SplitComma(full_address), 1)
    IN  IF \E i \in 1..Len(separated) : separated[i] = <<>>
        THEN [exc |-> "IndexError", list |-> <<>>]
        ELSE LET cleaned == [i \in 1..Len(separated) |-> CleanWord(separated[i])]
             IN  [exc |-> "none",
                  list |-> Flatten([i \in 1..Len(cleaned) |-> FinalWords(cleaned[i])])]

\* ------------------------------------------------------------- DataFrames
\* the columns extract_gps_coordinates reads, and one more standing for the
\* gazetteer columns it never touches
Wanted == {"County", "English_Name", "Y", "X"}
CsvColumns == Wanted \cup {"OBJECTID"}

Row(id, county, name, y, x) ==
    [OBJECTID |-> id, County |-> county, English_Name |-> name, Y |-> y, X |-> x]

Frame(rows) == [columns |-> CsvColumns, rows |-> rows]

\* pandas.DataFrame(): no columns, no rows
DataFrame == [columns |-> {}, rows |-> <<>>]

\* DataFrame.empty: some axis has length 0
Empty(df) == df.columns = {} \/ df.rows = <<>>

\* df.loc[(df['County'] == county) & (df['English_Name'] == name)]
LocCountyName(df, county, name) ==
    [columns |-> df.columns,
     rows |-> SelectSeq(df.rows, LAMBDA row : row.County = county /\ row.English_Name = name)]

\* df.loc[df['County'] == county]
LocCounty(df, county) ==
    [columns |-> df.columns,
     rows |-> SelectSeq(df.rows, LAMBDA row : row.County = county)]

\* df[['County', 'English_Name', 'Y', 'X']] when every label is a column
GetColumns(df) ==
    [columns |-> Wanted,
     rows |-> [i \in 1..Len(df.rows) |-> [c \in Wanted |-> df.rows[i][c]]]]

\* ------------------------------------------------------------------- state
VARIABLES
    TOWNLANDS_DF,   \* module global, read by every request
    COUNTIES_DF,    \* module global, read by every request
    pc,             \* per request: where its handler stands
    address,        \* per request: the address query parameter
    address_list,   \* per request: the list address_words / address_list (one object)
    matched_df,     \* per request: _matched_df
    data,           \* per request: what extract_gps_coordinates returned
    exc,            \* per request: the exception that ended it, or "none"
    response,       \* per request: the records handed to jsonify
    passed,         \* history: the list as it was when the current call began
    tried,          \* history: the <<English_Name, County>> pairs looked up in TOWNLANDS_DF
    results         \* history: what each completed call returned

vars == <<TOWNLANDS_DF, COUNTIES_DF, pc, address, address_list, matched_df, data,
          exc, response, passed, tried, results>>

tables == <<TOWNLANDS_DF, COUNTIES_DF>>

\* ------------------------------------------------- extract_gps_coordinates
\* the loop stopping before the last token
LoopCondTwo(df, l) == Empty(df) /\ Len(l) >= 2
\* while _matched_df.empty and len(address_list) >= 1
LoopCond(df, l) == Empty(df) /\ Len(l) >= 1

\* the iteration without its county lookup
NoCountyFallback(df, l) == df
\* "if len(address_list) == 1: _matched_df = COUNTIES_DF.loc[...]"
CountyFallback(df, l) ==
    IF Len(l) = 1 THEN LocCounty(COUNTIES_DF, l[1]) ELSE df

\* entry: _matched_df = pandas.DataFrame()
Enter(r) ==
    /\ matched_df' = [matched_df EXCEPT ![r] = DataFrame]
    /\ passed' = [passed EXCEPT ![r] = address_list[r]]
    /\ tried' = [tried EXCEPT ![r] = <<>>]
    /\ pc' = [pc EXCEPT ![r] = "loop"]
    /\ UNCHANGED <<tables, address, address_list, data, exc, response, results>>

\* one iteration of the while loop, with the global rebound to the selection
LoopIterWrites(r) ==
    /\ pc[r] = "loop"
    /\ LoopCond(matched_df[r], address_list[r])
    /\ LET l == address_list[r]
           found == LocCountyName(TOWNLANDS_DF, Last(l), l[1])
       IN  /\ matched_df' = [matched_df EXCEPT ![r] = CountyFallback(found, l)]
           /\ tried' = [tried EXCEPT ![r] = Append(@, <<l[1], Last(l)>>)]
           /\ address_list' = [address_list EXCEPT ![r] = PopFirst(l)]
           /\ TOWNLANDS_DF' = found
    /\ UNCHANGED <<COUNTIES_DF, pc, address, data, exc, response, passed, results>>

\* one iteration of the while loop
LoopIter(r) ==
    /\ pc[r] = "loop"
    /\ LoopCond(matched_df[r], address_list[r])
    /\ LET l == address_list[r]
           found == LocCountyName(TOWNLANDS_DF, Last(l), l[1])
       IN  /\ matched_df' = [matched_df EXCEPT ![r] = CountyFallback(found, l)]
           /\ tried' = [tried EXCEPT ![r] = Append(@, <<l[1], Last(l)>>)]
           /\ address_list' = [address_list EXCEPT ![r] = PopFirst(l)]
    /\ UNCHANGED <<tables, pc, address, data, exc, response, passed, results>>

\* loop exit and "return _matched_df[['County', 'English_Name', 'Y', 'X']]":
\* a KeyError when the frame has none of the labels
MatchReturn(r) ==
    /\ pc[r] = "loop"
    /\ ~LoopCond(matched_df[r], address_list[r])
    /\ IF Wanted \subseteq matched_df[r].columns
       THEN /\ data' = [data EXCEPT ![r] = GetColumns(matched_df[r])]
            /\ results' = [results EXCEPT ![r] = Append(@, GetColumns(matched_df[r]))]
            /\ pc' = [pc EXCEPT ![r] = "returned"]
            /\ exc' = exc
       ELSE /\ exc' = [exc EXCEPT ![r] = "KeyError"]
            /\ pc' = [pc EXCEPT ![r] = "raised"]
            /\ UNCHANGED <<data, results>>
    /\ UNCHANGED <<tables, address, address_list, matched_df, response, passed, tried>>

\* -------------------------------------------------------------- api_filter
\* address_words = address_handler(address)
ApiTokenize(r) ==
    /\ pc[r] = "recv"
    /\ LET out == address_handler(address[r])
       IN  /\ exc' = [exc EXCEPT ![r] = out.exc]
           /\ address_list' = [address_list EXCEPT ![r] = out.list]
           /\ pc' = [pc EXCEPT ![r] = IF out.exc = "none" THEN "tokenized" ELSE "raised"]
    /\ UNCHANGED <<tables, address, matched_df, data, response, passed, tried, results>>

\* data = extract_gps_coordinates(address_words)
ApiCallMatch(r) ==
    /\ pc[r] = "tokenized"
    /\ Enter(r)

\* flask.jsonify(data.to_dict(orient='records'))
ApiRespond(r) ==
    /\ pc[r] = "returned"
    /\ response' = [response EXCEPT ![r] = data[r].rows]
    /\ pc' = [pc EXCEPT ![r] = "done"]
    /\ UNCHANGED <<tables, address, address_list, matched_df, data, exc, passed, tried, results>>

\* ------------------------------- a caller of extract_gps_coordinates itself
\* the caller holds a list of tokens and passes it
DirectCall(r) ==
    /\ pc[r] = "ready"
    /\ Enter(r)

\* the caller passes the same list once more
CallAgain(r) ==
    /\ pc[r] = "returned"
    /\ Len(results[r]) < MaxCalls
    /\ Enter(r)

\* ------------------------------------------------------------------ inputs
\* characters an address is drawn from
Alphabet == {",", " ", ".", "a", "b"}

Johnstown_Bennekerry_Co_Carlow ==
    <<"J","o","h","n","s","t","o","w","n",","," ","B","e","n","n","e","k","e","r","r","y",
      ","," ","C","o"," ","C","a","r","l","o","w">>
Foo_Bar_Dotted == <<" ","F","o","o",".",","," ","B","a","r">>
Foo_Bar_TwoCommas == <<"F","o","o",",",",","B","a","r">>

JOHNSTOWN == <<"J","O","H","N","S","T","O","W","N">>
BENNEKERRY == <<"B","E","N","N","E","K","E","R","R","Y">>
CO == <<"C","O">>
CARLOW == <<"C","A","R","L","O","W">>
FOO == <<"F","O","O">>
BAR == <<"B","A","R">>

Examples == {Johnstown_Bennekerry_Co_Carlow, Foo_Bar_Dotted, Foo_Bar_TwoCommas}

Addresses == SeqsUpTo(Alphabet, MaxAddrLen) \cup Examples

\* addresses of the concurrent requests
ServedAddresses == Examples \cup {<<>>, <<",">>, <<"b">>, <<"a", ",", "b">>}

\* the gazetteer files as loaded by pandas.read_csv
TownlandsCsv ==
    Frame(<<Row("1", CARLOW, JOHNSTOWN, "52.82", "-6.86"),
            Row("2", CARLOW, BENNEKERRY, "52.83", "-6.87"),
            Row("3", CARLOW, JOHNSTOWN, "52.70", "-6.60"),
            Row("4", <<"B">>, <<"A">>, "53.10", "-7.10"),
            Row("5", <<"B">>, <<"B">>, "53.20", "-7.20")>>)
CountiesCsv ==
    Frame(<<Row("1", CARLOW, CARLOW, "52.72", "-6.81"),
            Row("2", <<"B">>, <<"B">>, "53.00", "-7.00")>>)

\* tokens, place rows and county tables of the direct calls
Tokens == {<<"A">>, <<"B">>, <<"C">>}
PlaceRows ==
    {Row("1", <<"C">>, <<"A">>, "1", "1"), Row("2", <<"C">>, <<"A">>, "2", "2"),
     Row("3", <<"C">>, <<"B">>, "3", "3"), Row("4", <<"C">>, <<"C">>, "4", "4"),
     Row("5", <<"B">>, <<"A">>, "5", "5")}
CountyTables ==
    {Frame(<<>>),
     Frame(<<Row("1", <<"C">>, <<"C">>, "8", "8")>>),
     Frame(<<Row("1", <<"C">>, <<"C">>, "8", "8"), Row("2", <<"C">>, <<"C">>, "9", "9")>>),
     Frame(<<Row("1", <<"B">>, <<"B">>, "7", "7"), Row("2", <<"C">>, <<"C">>, "8", "8")>>)}

\* -------------------------------------------------------------------- Init
\* every request's locals before its handler runs
Fresh(start, p, a, l) ==
    /\ pc = [r \in Req |-> IF r \in start THEN p ELSE "off"]
    /\ address = [r \in Req |-> IF r \in start THEN a[r] ELSE <<>>]
    /\ address_list = [r \in Req |-> IF r \in start THEN l[r] ELSE <<>>]
    /\ matched_df = [r \in Req |-> DataFrame]
    /\ data = [r \in Req |-> DataFrame]
    /\ exc = [r \in Req |-> "none"]
    /\ response = [r \in Req |-> <<>>]
    /\ passed = [r \in Req |-> <<>>]
    /\ tried = [r \in Req |-> <<>>]
    /\ results = [r \in Req |-> <<>>]

\* the service: every request arrives with some address
Init ==
    /\ TOWNLANDS_DF = TownlandsCsv
    /\ COUNTIES_DF = CountiesCsv
    /\ \E a \in [Req -> ServedAddresses] : Fresh(Req, "recv", a, [r \in Req |-> <<>>])

\* one request, any address
InitTokenize ==
    /\ TOWNLANDS_DF = TownlandsCsv
    /\ COUNTIES_DF = CountiesCsv
    /\ \E a \in Addresses : Fresh({1}, "recv", [r \in Req |-> a], [r \in Req |-> <<>>])

\* one caller of extract_gps_coordinates, any token list, any tables
InitMatch ==
    /\ TOWNLANDS_DF \in {Frame(rows) : rows \in SeqsUpTo(PlaceRows, MaxRows)}
    /\ COUNTIES_DF \in CountyTables
    /\ \E l \in SeqsUpTo(Tokens, MaxTokens) :
          Fresh({1}, "ready", [r \in Req |-> <<>>], [r \in Req |-> l])

\* -------------------------------------------------------------------- Next
Next ==
    \E r \in Req :
        \/ ApiTokenize(r)
        \/ ApiCallMatch(r)
        \/ LoopIter(r)
        \/ MatchReturn(r)
        \/ ApiRespond(r)

NextMatch ==
    \E r \in Req :
        \/ DirectCall(r)
        \/ LoopIter(r)
        \/ MatchReturn(r)
        \/ CallAgain(r)

Spec == Init /\ [][Next]_vars
SpecTokenize == InitTokenize /\ [][Next]_vars
SpecMatch == InitMatch /\ [][NextMatch]_vars

\* ---------------------------------------------- the tokenizer's contract
\* The tokens of an address read one character at a time, left to right:
\* a comma closes a segment, a segment's first space and every period are
\* dropped, a later space makes the segment a list of words, every other
\* character is upper-cased; a segment of no characters gives nothing.
NewSegment == [words |-> <<>>, cur |-> <<>>, n |-> 0, space |-> FALSE]

SegmentTokens(g) ==
    IF g.n = 0 THEN <<>>
    ELSE IF g.space THEN g.words \o (IF g.cur = <<>> THEN <<>> ELSE <<g.cur>>)
    ELSE <<g.cur>>

RECURSIVE Scan(_, _, _, _)
Scan(a, i, out, g) ==
    IF i > Len(a) THEN out \o SegmentTokens(g)
    ELSE IF a[i] = "," THEN Scan(a, i + 1, out \o SegmentTokens(g), NewSegment)
    ELSE IF a[i] = " " /\ g.n = 0 THEN Scan(a, i + 1, out, [g EXCEPT !.n = 1])
    ELSE IF a[i] = " "
         THEN Scan(a, i + 1, out,
                   [g EXCEPT !.n = @ + 1, !.space = TRUE, !.cur = <<>>,
                             !.words = IF g.cur = <<>> THEN @ ELSE Append(@, g.cur)])
    ELSE IF a[i] = "." THEN Scan(a, i + 1, out, [g EXCEPT !.n = @ + 1])
    ELSE Scan(a, i + 1, out, [g EXCEPT !.n = @ + 1, !.cur = Append(@, UpperChar(a[i]))])

ReadingOrderTokens(a) == Scan(a, 1, <<>>, NewSegment)

\* no comma-separated segment of a is empty
SegmentsNonEmpty(a) ==
    /\ a # <<>>
    /\ a[1] # ","
    /\ a[Len(a)] # ","
    /\ \A i \in 1..(Len(a) - 1) : ~(a[i] = "," /\ a[i + 1] = ",")

\* a is made up of commas and spaces only
OnlyDelimiters(a) == \A i \in 1..Len(a) : a[i] \in {",", " "}

C6_EmptySegmentsDiscarded ==
    \A r \in Req :
        /\ exc[r] # "IndexError"
        /\ pc[r] = "tokenized" => address_list[r] = ReadingOrderTokens(address[r])

\* C9: an address of commas and spaces only goes through address_handler and
\* extract_gps_coordinates without an exception, giving no token and no record.
C9_DelimitersOnlyIsNoMatch ==
    \A r \in Req :
        (pc[r] # "off" /\ OnlyDelimiters(address[r])) =>
            /\ exc[r] = "none"
            /\ pc[r] = "tokenized" => address_list[r] = <<>>
            /\ pc[r] \in {"returned", "done"} => data[r].rows = <<>>

\* ------------------------------------------------- the matcher's contract
\* positions before the last whose token names a place of the last token's county
PlaceHits(t) ==
    {i \in 1..(Len(t) - 1) :
        \E j \in 1..Len(TOWNLANDS_DF.rows) :
            /\ TOWNLANDS_DF.rows[j].County = Last(t)
            /\ TOWNLANDS_DF.rows[j].English_Name = t[i]}

\* the records of the rows of df at the positions idx, in table order
Records(df, idx) ==
    [m \in 1..Cardinality(idx) |->
        LET j == CHOOSE x \in idx : Cardinality({y \in idx : y <= x}) = m
        IN  [County |-> df.rows[j].County, English_Name |-> df.rows[j].English_Name,
             Y |-> df.rows[j].Y, X |-> df.rows[j].X]]

PlacePositions(county, name) ==
    {j \in 1..Len(TOWNLANDS_DF.rows) :
        TOWNLANDS_DF.rows[j].County = county /\ TOWNLANDS_DF.rows[j].English_Name = name}

CountyPositions(county) ==
    {j \in 1..Len(COUNTIES_DF.rows) : COUNTIES_DF.rows[j].County = county}

Min(S) == CHOOSE x \in S : \A y \in S : x <= y

\* C1: on a list t of n >= 2 tokens the places looked up are (t[1], t[n]),
\* (t[2], t[n]), ... in that order with the county fixed; when some position
\* before the last names a place of county t[n], the call returns exactly the
\* rows of the first such position, looks no further and leaves tokens behind.
C1_FirstPlaceHitWins ==
    \A r \in Req :
        LET t == passed[r]
            n == Len(t)
        IN  (pc[r] \in {"loop", "returned"} /\ n >= 2) =>
                /\ Len(tried[r]) <= n
                /\ \A k \in 1..Len(tried[r]) : tried[r][k] = <<t[k], t[n]>>
                /\ (pc[r] = "returned" /\ PlaceHits(t) # {}) =>
                      LET i == Min(PlaceHits(t))
                      IN  /\ data[r].rows = Records(TOWNLANDS_DF, PlacePositions(t[n], t[i]))
                          /\ data[r].rows # <<>>
                          /\ Len(tried[r]) = i
                          /\ address_list[r] = SubSeq(t, i + 1, n)
                          /\ address_list[r] # <<>>

C1_Witness ==
    \E r \in Req :
        /\ pc[r] = "returned"
        /\ Len(passed[r]) = 3
        /\ PlaceHits(passed[r]) = {2}
        /\ Len(data[r].rows) = 2

\* C2: when the working list comes down to the one token c (the list passed
\* had one token, or no earlier token named a place of county c), the call
\* returns exactly the COUNTIES_DF rows of county c, be they none, never a
\* TOWNLANDS_DF row, and the loop ends with the list used up.
C2_CountyFallbackOnly ==
    \A r \in Req :
        LET t == passed[r]
        IN  (pc[r] \in {"returned", "raised"} /\ t # <<>> /\ PlaceHits(t) = {}) =>
                /\ pc[r] = "returned"
                /\ data[r].rows = Records(COUNTIES_DF, CountyPositions(Last(t)))
                /\ address_list[r] = <<>>
                /\ Len(tried[r]) = Len(t)

C2_Witness ==
    \E r \in Req :
        /\ pc[r] = "returned"
        /\ passed[r] = <<<<"C">>>>
        /\ PlacePositions(<<"C">>, <<"C">>) # {}
        /\ Len(data[r].rows) = 2

\* C4: extract_gps_coordinates on the empty list returns an empty result and
\* raises nothing.
C4_EmptyListGivesEmptyResult ==
    \A r \in Req :
        (pc[r] \in {"returned", "raised"} /\ passed[r] = <<>>) =>
            /\ pc[r] = "returned"
            /\ exc[r] = "none"
            /\ data[r].rows = <<>>

\* C5: when extract_gps_coordinates returns, the list the caller passed is as
\* it was when passed.
C5_CallerListUnchanged ==
    \A r \in Req : pc[r] = "returned" => address_list[r] = passed[r]

\* C7: two calls in succession with the same list and the same tables return
\* the same result.
C7_SecondCallSameResult ==
    \A r \in Req : Len(results[r]) >= 2 => results[r][2] = results[r][1]

\* C8: on a non-empty list whose last token is the county of no COUNTIES_DF row
\* and none of whose tokens names a place of that county, the call returns an
\* empty result and raises nothing.
C8_NoMatchIsEmpty ==
    \A r \in Req :
        LET t == passed[r]
        IN  (/\ pc[r] \in {"returned", "raised"}
             /\ t # <<>>
             /\ CountyPositions(Last(t)) = {}
             /\ \A i \in 1..Len(t) : PlacePositions(Last(t), t[i]) = {}) =>
                /\ pc[r] = "returned"
                /\ exc[r] = "none"
                /\ Empty(data[r])

C8_Witness ==
    \E r \in Req :
        /\ pc[r] = "returned"
        /\ Len(passed[r]) = 2
        /\ CountyPositions(Last(passed[r])) = {}
        /\ \A i \in 1..Len(passed[r]) : PlacePositions(Last(passed[r]), passed[r][i]) = {}
        /\ TOWNLANDS_DF.rows # <<>>
        /\ COUNTIES_DF.rows # <<>>

\* C10: whatever the requests and however their steps interleave, both tables
\* are as they were loaded.
C10_TablesAsLoaded ==
    /\ TOWNLANDS_DF = TownlandsCsv
    /\ COUNTIES_DF = CountiesCsv

C10_Witness ==
    /\ \A r \in Req : tried[r] # <<>>
    /\ \E r \in Req : pc[r] = "loop"
    /\ \E r \in Req : pc[r] = "done" /\ response[r] # <<>>

====
